---- MODULE Spec2Model ----
(***************************************************************************)
(* Model of the network-architecture builder of the MNIST training         *)
(* dashboard: the layer catalog, shape/parameter inference                 *)
(* (calculateLayerDimensions), the two insertion-time validators           *)
(* (App.handleDrop and NetworkBuilder.validateLayerOrder), the             *)
(* submission-time validator (TrainingConfig.validateNetwork) and the      *)
(* React state they act on (App.layers, NetworkBuilder.layerDimensions     *)
(* and totalParams).                                                       *)
(*                                                                         *)
(* Presentational fields (icon, dropTarget, anchorEl) are not state of the *)
(* architecture and are left out.  Fractional parameters are kept as       *)
(* integers in thousandths (rate 0.25 is 250).                             *)
(***************************************************************************)
EXTENDS Integers, Sequences, FiniteSets, TLC

VARIABLES layers, layerDimensions, totalParams, effectPending, clock, last,
          error, isTraining, trainingResults, request

vars == <<layers, layerDimensions, totalParams, effectPending, clock, last,
          error, isTraining, trainingResults, request>>

(***************************************************************************)
(* Bounds of the model.                                                    *)
(***************************************************************************)
MaxLayers == 3

MaxClock == 1

(***************************************************************************)
(* Layer catalog (App.js layerTypes).                                      *)
(***************************************************************************)
NoParams == [p \in {} |-> 0]

LayerTypeIds ==
  {"conv2d", "conv1x1", "batchnorm", "maxpool", "globalavgpool", "flatten",
   "dropout", "dense"}

layerTypes ==
  [conv2d |->
     [type |-> "Convolution 2D",
      defaultParams |-> [filters |-> 32, kernelSize |-> 3, stride |-> 1,
                         padding |-> 1, activation |-> "relu"]],
   conv1x1 |->
     [type |-> "Convolution 1x1",
      defaultParams |-> [filters |-> 32, activation |-> "relu"]],
   batchnorm |->
     [type |-> "Batch Normalization",
      defaultParams |-> [momentum |-> 990, epsilon |-> 1]],
   maxpool |->
     [type |-> "Max Pooling",
      defaultParams |-> [poolSize |-> 2, stride |-> 2]],
   globalavgpool |->
     [type |-> "Global Average Pooling", defaultParams |-> NoParams],
   flatten |->
     [type |-> "Flatten", defaultParams |-> NoParams],
   dropout |->
     [type |-> "Dropout", defaultParams |-> [rate |-> 250]],
   dense |->
     [type |-> "Fully Connected",
      defaultParams |-> [units |-> 10, activation |-> "softmax"]]]

\* The layer object built by both drop handlers: `${layerType}-${Date.now()}`
\* is kept as the pair <<layerType, t>>.
NewLayer(layerType, t) ==
  [id |-> <<layerType, t>>,
   type |-> layerTypes[layerType].type,
   defaultParams |-> layerTypes[layerType].defaultParams]

(***************************************************************************)
(* Shape inference (NetworkBuilder.js calculateLayerDimensions).           *)
(***************************************************************************)
InputChannels == 1

InputHeight == 28

InputWidth == 28

\* One iteration of the forEach body: the dimensions entry pushed for the
\* layer and the running inputChannels/currentHeight/currentWidth after it.
LayerStep(layer, inputChannels, currentHeight, currentWidth) ==
  LET inputDim == <<inputChannels, currentHeight, currentWidth>>
      p == layer.defaultParams
  IN
  CASE layer.type = "Convolution 2D" ->
         LET h == ((currentHeight + 2 * p.padding - p.kernelSize) \div p.stride) + 1
             w == ((currentWidth + 2 * p.padding - p.kernelSize) \div p.stride) + 1
             kernelParams == p.kernelSize * p.kernelSize * inputChannels * p.filters
             biasParams == p.filters
         IN [dim |-> [input |-> inputDim,
                      output |-> <<p.filters, h, w>>,
                      params |-> kernelParams + biasParams,
                      paramBreakdown |-> <<"Kernel", p.kernelSize, p.kernelSize,
                                           inputChannels, p.filters,
                                           "Bias", biasParams>>],
             c |-> p.filters, h |-> h, w |-> w]
    [] layer.type = "Convolution 1x1" ->
         LET kernelParams == 1 * 1 * inputChannels * p.filters
             biasParams == p.filters
         IN [dim |-> [input |-> inputDim,
                      output |-> <<p.filters, currentHeight, currentWidth>>,
                      params |-> kernelParams + biasParams,
                      paramBreakdown |-> <<"Kernel", 1, 1, inputChannels,
                                           p.filters, "Bias", biasParams>>],
             c |-> p.filters, h |-> currentHeight, w |-> currentWidth]
    [] layer.type = "Batch Normalization" ->
         [dim |-> [input |-> inputDim,
                   output |-> inputDim,
                   params |-> 4 * inputChannels,
                   paramBreakdown |-> <<"4 params per channel", inputChannels>>],
          c |-> inputChannels, h |-> currentHeight, w |-> currentWidth]
    [] layer.type = "Max Pooling" ->
         LET h == currentHeight \div p.stride
             w == currentWidth \div p.stride
         IN [dim |-> [input |-> inputDim,
                      output |-> <<inputChannels, h, w>>,
                      params |-> 0,
                      paramBreakdown |-> <<"No parameters">>],
             c |-> inputChannels, h |-> h, w |-> w]
    [] layer.type = "Global Average Pooling" ->
         [dim |-> [input |-> inputDim,
                   output |-> <<inputChannels, 1, 1>>,
                   params |-> 0,
                   paramBreakdown |-> <<"No parameters">>],
          c |-> inputChannels, h |-> 1, w |-> 1]
    [] layer.type = "Flatten" ->
         LET n == inputChannels * currentHeight * currentWidth
         IN [dim |-> [input |-> inputDim,
                      output |-> <<n>>,
                      params |-> 0,
                      paramBreakdown |-> <<"No parameters">>],
             c |-> n, h |-> 1, w |-> 1]
    [] layer.type = "Dropout" ->
         [dim |-> [input |-> inputDim,
                   output |-> inputDim,
                   params |-> 0,
                   paramBreakdown |-> <<"No parameters">>],
          c |-> inputChannels, h |-> currentHeight, w |-> currentWidth]
    [] layer.type = "Fully Connected" ->
         LET flat == currentHeight > 1 \/ currentWidth > 1
             inputSize == IF flat
                          THEN inputChannels * currentHeight * currentWidth
                          ELSE inputChannels
             weightParams == inputSize * p.units
             biasParams == p.units
         IN [dim |-> [input |-> IF flat THEN <<inputSize>> ELSE inputDim,
                      output |-> <<p.units>>,
                      params |-> weightParams + biasParams,
                      paramBreakdown |-> <<"Weights", inputSize, p.units,
                                           "Bias", biasParams>>],
             c |-> p.units, h |-> 1, w |-> 1]
    [] OTHER ->
         [dim |-> [input |-> inputDim, output |-> inputDim, params |-> 0,
                   paramBreakdown |-> <<>>],
          c |-> inputChannels, h |-> currentHeight, w |-> currentWidth]

RECURSIVE DimensionsFrom(_, _, _, _, _)
DimensionsFrom(ls, i, inputChannels, currentHeight, currentWidth) ==
  IF i > Len(ls) THEN <<>>
  ELSE LET s == LayerStep(ls[i], inputChannels, currentHeight, currentWidth)
       IN <<s.dim>> \o DimensionsFrom(ls, i + 1, s.c, s.h, s.w)

\* Mutation of calculateLayerDimensions: a Max Pooling layer divides the
\* height and the width by its poolSize.
RECURSIVE DimensionsFromPoolSize(_, _, _, _, _)
DimensionsFromPoolSize(ls, i, inputChannels, currentHeight, currentWidth) ==
  IF i > Len(ls) THEN <<>>
  ELSE LET layer == IF ls[i].type = "Max Pooling"
                    THEN [ls[i] EXCEPT !.defaultParams.stride =
                                          ls[i].defaultParams.poolSize]
                    ELSE ls[i]
           s == LayerStep(layer, inputChannels, currentHeight, currentWidth)
       IN <<s.dim>> \o DimensionsFromPoolSize(ls, i + 1, s.c, s.h, s.w)

calculateLayerDimensionsPoolSize(ls) ==
  DimensionsFromPoolSize(ls, 1, InputChannels, InputHeight, InputWidth)

\* Mutation of calculateLayerDimensions: a Convolution 2D layer is sized as if it had
\* no padding.
RECURSIVE DimensionsFromNoPadding(_, _, _, _, _)
DimensionsFromNoPadding(ls, i, inputChannels, currentHeight, currentWidth) ==
  IF i > Len(ls) THEN <<>>
  ELSE LET layer == IF ls[i].type = "Convolution 2D"
                    THEN [ls[i] EXCEPT !.defaultParams.padding = 0]
                    ELSE ls[i]
           s == LayerStep(layer, inputChannels, currentHeight, currentWidth)
       IN <<s.dim>> \o DimensionsFromNoPadding(ls, i + 1, s.c, s.h, s.w)

calculateLayerDimensionsNoPadding(ls) ==
  DimensionsFromNoPadding(ls, 1, InputChannels, InputHeight, InputWidth)

calculateLayerDimensions(ls) ==
  DimensionsFrom(ls, 1, InputChannels, InputHeight, InputWidth)

\* Mutation of SumParams: the reduce starts behind the first entry.
RECURSIVE ReduceTail(_, _, _)
ReduceTail(dimensions, i, sum) ==
  IF i > Len(dimensions) THEN sum
  ELSE ReduceTail(dimensions, i + 1, sum + dimensions[i].params)

SumParamsSkipFirst(dimensions) == ReduceTail(dimensions, 2, 0)

\* dimensions.reduce((sum, dim) => sum + dim.params, 0)
RECURSIVE ReduceParams(_, _, _)
ReduceParams(dimensions, i, sum) ==
  IF i > Len(dimensions) THEN sum
  ELSE ReduceParams(dimensions, i + 1, sum + dimensions[i].params)

SumParams(dimensions) ==
  ReduceParams(dimensions, 1, 0)

(***************************************************************************)
(* Insertion-time validators.                                              *)
(***************************************************************************)
HasType(ls, types) == \E i \in 1..Len(ls) : ls[i].type \in types

\* Mutation of CanAdd: the check for an existing Flatten / Global Average
\* Pooling is left out.
CanAddNoExistsCheck(ls, layerType) ==
  LET hasConvBefore ==
        HasType(ls, {"Convolution 2D", "Convolution 1x1", "Max Pooling"})
      hasDenseAfter == HasType(ls, {"Fully Connected"})
      reducingOk ==
        IF layerType \in {"flatten", "globalavgpool"}
        THEN ~(~hasConvBefore \/ hasDenseAfter)
        ELSE TRUE
      convOk ==
        ~(layerType \in {"conv2d", "conv1x1", "maxpool"}
          /\ HasType(ls, {"Fully Connected"}))
  IN reducingOk /\ convOk

\* Mutation of CanAdd: hasDenseAfter is left out of the Flatten / Global
\* Average Pooling check.
CanAddNoDenseCheck(ls, layerType) ==
  LET exists == HasType(ls, {"Flatten", "Global Average Pooling"})
      hasConvBefore ==
        HasType(ls, {"Convolution 2D", "Convolution 1x1", "Max Pooling"})
      reducingOk ==
        IF layerType \in {"flatten", "globalavgpool"}
        THEN ~exists /\ hasConvBefore
        ELSE TRUE
      convOk ==
        ~(layerType \in {"conv2d", "conv1x1", "maxpool"}
          /\ HasType(ls, {"Fully Connected"}))
  IN reducingOk /\ convOk

\* Mutation of CanAdd: the check for a conv/pool layer behind a Fully
\* Connected layer is left out.
CanAddNoConvCheck(ls, layerType) ==
  LET exists == HasType(ls, {"Flatten", "Global Average Pooling"})
      hasConvBefore ==
        HasType(ls, {"Convolution 2D", "Convolution 1x1", "Max Pooling"})
      hasDenseAfter == HasType(ls, {"Fully Connected"})
  IN IF layerType \in {"flatten", "globalavgpool"}
     THEN ~exists /\ ~(~hasConvBefore \/ hasDenseAfter)
     ELSE TRUE

\* App.handleDrop: the value of canAdd when the handler reaches `if (canAdd)`.
CanAdd(ls, layerType) ==
  LET exists == HasType(ls, {"Flatten", "Global Average Pooling"})
      hasConvBefore ==
        HasType(ls, {"Convolution 2D", "Convolution 1x1", "Max Pooling"})
      hasDenseAfter == HasType(ls, {"Fully Connected"})
      reducingOk ==
        IF layerType \in {"flatten", "globalavgpool"}
        THEN ~exists /\ ~(~hasConvBefore \/ hasDenseAfter)
        ELSE TRUE
      convOk ==
        ~(layerType \in {"conv2d", "conv1x1", "maxpool"}
          /\ HasType(ls, {"Fully Connected"}))
  IN reducingOk /\ convOk

\* Mutation of validateLayerOrder: hasSeenFC is never set.
RECURSIVE OrderFromNoFC(_, _, _)
OrderFromNoFC(newLayers, i, hasSeenFlatten) ==
  IF i > Len(newLayers) THEN TRUE
  ELSE LET type == newLayers[i].type
       IN IF hasSeenFlatten /\ type # "Fully Connected" /\ type # "Dropout"
          THEN FALSE
          ELSE OrderFromNoFC(newLayers, i + 1,
                             hasSeenFlatten
                               \/ type \in {"Flatten", "Global Average Pooling"})

validateLayerOrderNoFC(newLayers) == OrderFromNoFC(newLayers, 1, FALSE)

\* NetworkBuilder.validateLayerOrder: the for-of loop from position i on,
\* with the flags hasSeenFC and hasSeenFlatten carried along.
RECURSIVE OrderFrom(_, _, _, _)
OrderFrom(newLayers, i, hasSeenFC, hasSeenFlatten) ==
  IF i > Len(newLayers) THEN TRUE
  ELSE LET type == newLayers[i].type
       IN IF hasSeenFC /\ type \in {"Convolution 2D", "Convolution 1x1",
                                     "Max Pooling", "Global Average Pooling"}
          THEN FALSE
          ELSE IF hasSeenFlatten /\ type # "Fully Connected" /\ type # "Dropout"
          THEN FALSE
          ELSE OrderFrom(newLayers, i + 1,
                         hasSeenFC \/ type = "Fully Connected",
                         hasSeenFlatten
                           \/ type \in {"Flatten", "Global Average Pooling"})

validateLayerOrder(newLayers) ==
  OrderFrom(newLayers, 1, FALSE, FALSE)

\* newLayers.splice(index, 0, newLayer), index counted from 0.
SpliceIn(ls, index, newLayer) ==
  SubSeq(ls, 1, index) \o <<newLayer>> \o SubSeq(ls, index + 1, Len(ls))

\* Mutation of SpliceOut: the last layer is dropped whatever the index is.
SpliceOutLast(ls, index) ==
  SubSeq(ls, 1, Len(ls) - 1)

\* newLayers.splice(index, 1) / layers.filter((_, i) => i !== index).
SpliceOut(ls, index) ==
  SubSeq(ls, 1, index) \o SubSeq(ls, index + 2, Len(ls))

(***************************************************************************)
(* State after the first render and its mount effect.                      *)
(***************************************************************************)
NoCommand ==
  [op |-> "none", kind |-> "none", index |-> 0, nbOk |-> FALSE, appOk |-> FALSE]

Init ==
  /\ layers = <<>>
  /\ layerDimensions = <<>>
  /\ totalParams = 0
  /\ effectPending = FALSE
  /\ clock = 0
  /\ last = NoCommand
  /\ error = "null"
  /\ isTraining = FALSE
  /\ trainingResults = <<>>
  /\ request = "none"

trainVars == <<error, isTraining, trainingResults, request>>

(***************************************************************************)
(* The millisecond clock Date.now() reads.  The handlers of one event run  *)
(* within the same reading; a later event may see a later one.  Only the   *)
(* handlers of an event read the clock, and the effect runs right after    *)
(* the render of a change, so the clock is advanced between events.        *)
(***************************************************************************)
Tick ==
  /\ ~effectPending
  /\ clock < MaxClock
  /\ clock' = clock + 1
  /\ UNCHANGED <<layers, layerDimensions, totalParams, effectPending, last,
                 trainVars>>

(***************************************************************************)
(* Commands.  A command runs only between renders, so none is enabled      *)
(* while the effect of the previous render has not run yet.                *)
(***************************************************************************)

\* A drop on the App container outside the indexed drop zones: only
\* App.handleDrop runs.  The id of the new layer carries Date.now().
AppendLayer(layerType) ==
  /\ ~effectPending
  /\ Len(layers) < MaxLayers
  /\ LET canAdd == CanAdd(layers, layerType)
     IN /\ layers' = IF canAdd THEN layers \o <<NewLayer(layerType, clock)>>
                     ELSE layers
        /\ effectPending' = canAdd
        /\ last' = [op |-> "append", kind |-> layerType, index |-> Len(layers),
                    nbOk |-> FALSE, appOk |-> canAdd]
  /\ UNCHANGED <<layerDimensions, totalParams, clock, trainVars>>

\* A drop on the drop zone `index` of NetworkBuilder: handleDrop(e, index)
\* runs, then the event bubbles to the App container (handleDrop never stops
\* its propagation) and App.handleDrop runs in the same batch with the same
\* `layers`.  React keeps the value of the last setLayers call of the batch.
InsertAt(layerType, index) ==
  /\ ~effectPending
  /\ Len(layers) < MaxLayers
  /\ index \in 0..Len(layers)
  /\ LET newLayers == SpliceIn(layers, index, NewLayer(layerType, clock))
         nbOk == validateLayerOrder(newLayers)
         canAdd == CanAdd(layers, layerType)
     IN /\ layers' = IF canAdd THEN layers \o <<NewLayer(layerType, clock)>>
                     ELSE IF nbOk THEN newLayers
                     ELSE layers
        /\ effectPending' = (canAdd \/ nbOk)
        /\ last' = [op |-> "insertAt", kind |-> layerType, index |-> index,
                    nbOk |-> nbOk, appOk |-> canAdd]
  /\ UNCHANGED <<layerDimensions, totalParams, clock, trainVars>>

\* LayerCard.handleParamChange(param, value) on the card at `index`, through
\* NetworkBuilder onUpdate and App.handleLayerUpdate (array branch).
EditValues ==
  [units |-> {5}]

\* Mutation of UpdateParams: the new value is written to every layer of the
\* type of the edited one.
UpdateParamsOfType(index, param, value) ==
  /\ ~effectPending
  /\ index \in 0..(Len(layers) - 1)
  /\ param \in DOMAIN layers[index + 1].defaultParams
  /\ param \in DOMAIN EditValues
  /\ value \in EditValues[param]
  /\ layers' = [i \in 1..Len(layers) |->
                  IF layers[i].type = layers[index + 1].type
                  THEN [layers[i] EXCEPT !.defaultParams[param] = value]
                  ELSE layers[i]]
  /\ effectPending' = TRUE
  /\ last' = [op |-> "updateParams", kind |-> param, index |-> index,
              nbOk |-> FALSE, appOk |-> FALSE]
  /\ UNCHANGED <<layerDimensions, totalParams, clock, trainVars>>

UpdateParams(index, param, value) ==
  /\ ~effectPending
  /\ index \in 0..(Len(layers) - 1)
  /\ param \in DOMAIN layers[index + 1].defaultParams
  /\ param \in DOMAIN EditValues
  /\ value \in EditValues[param]
  /\ LET layer == layers[index + 1]
         params == [layer.defaultParams EXCEPT ![param] = value]
     IN layers' = [layers EXCEPT ![index + 1] =
                     [layer EXCEPT !.defaultParams = params]]
  /\ effectPending' = TRUE
  /\ last' = [op |-> "updateParams", kind |-> param, index |-> index,
              nbOk |-> FALSE, appOk |-> FALSE]
  /\ UNCHANGED <<layerDimensions, totalParams, clock, trainVars>>

\* NetworkBuilder.handleLayerDelete(index): App.handleLayerDelete and the
\* recomputation of the dimensions are in one batch; the change of `layers`
\* still schedules the effect.
Remove(index) ==
  /\ ~effectPending
  /\ index \in 0..(Len(layers) - 1)
  /\ LET newLayers == SpliceOut(layers, index)
         newDimensions == calculateLayerDimensions(newLayers)
     IN /\ layers' = newLayers
        /\ layerDimensions' = newDimensions
        /\ totalParams' = SumParams(newDimensions)
  /\ effectPending' = TRUE
  /\ last' = [op |-> "remove", kind |-> "none", index |-> index,
              nbOk |-> FALSE, appOk |-> FALSE]
  /\ UNCHANGED <<clock, trainVars>>

\* App.handleDataSourceChange.
DataSourceChange ==
  /\ ~effectPending
  /\ layers' = <<>>
  /\ trainingResults' = <<>>
  /\ effectPending' = TRUE
  /\ last' = [op |-> "dataSource", kind |-> "none", index |-> 0,
              nbOk |-> FALSE, appOk |-> FALSE]
  /\ UNCHANGED <<layerDimensions, totalParams, clock, error, isTraining, request>>

\* The effect of NetworkBuilder on [layers], run after the render that
\* follows a change of `layers`.  The command that caused the render is
\* over: its record is cleared.
RunEffect ==
  /\ effectPending
  /\ LET dimensions == calculateLayerDimensions(layers)
     IN /\ layerDimensions' = dimensions
        /\ totalParams' = SumParams(dimensions)
  /\ effectPending' = FALSE
  /\ last' = NoCommand
  /\ UNCHANGED <<layers, clock, trainVars>>

Next ==
  \/ Tick
  \/ \E layerType \in LayerTypeIds : AppendLayer(layerType)
  \/ \E layerType \in LayerTypeIds, index \in 0..MaxLayers :
       InsertAt(layerType, index)
  \/ \E index \in 0..MaxLayers, param \in DOMAIN EditValues :
       \E value \in EditValues[param] : UpdateParams(index, param, value)
  \/ \E index \in 0..MaxLayers : Remove(index)
  \/ DataSourceChange
  \/ RunEffect

Spec == Init /\ [][Next]_vars

(***************************************************************************)
(* The builder used through the append path only: every drop lands on the  *)
(* App container outside the indexed drop zones.                           *)
(***************************************************************************)
NextAppend ==
  \/ \E layerType \in LayerTypeIds : AppendLayer(layerType)
  \/ RunEffect

SpecAppend == Init /\ [][NextAppend]_vars

(***************************************************************************)
(* Submission (TrainingConfig.js validateNetwork and handleSubmit).        *)
(***************************************************************************)
ClassCount == 10

MsgEmpty == "Please add at least one layer to the network"

MsgOrder ==
  "Convolutional and Pooling layers must come before Fully Connected layers"

MsgLast ==
  "The last layer must be a Fully Connected layer with 10 units for MNIST classification"

MsgFailed == "Training failed: "

\* Mutation of validateNetwork: the ordering check also refuses a
\* Convolution 1x1 behind a Fully Connected layer, as validateLayerOrder does.
RECURSIVE OrderingErrorWide(_, _, _)
OrderingErrorWide(networkLayers, i, hasSeenFC) ==
  IF i > Len(networkLayers) THEN "null"
  ELSE LET type == networkLayers[i].type
       IN IF hasSeenFC /\ type \in {"Convolution 2D", "Convolution 1x1",
                                     "Max Pooling"}
          THEN MsgOrder
          ELSE OrderingErrorWide(networkLayers, i + 1,
                                 hasSeenFC \/ type = "Fully Connected")

validateNetworkWide(networkLayers) ==
  IF Len(networkLayers) = 0 THEN MsgEmpty
  ELSE IF OrderingErrorWide(networkLayers, 1, FALSE) # "null"
  THEN OrderingErrorWide(networkLayers, 1, FALSE)
  ELSE LET lastLayer == networkLayers[Len(networkLayers)]
       IN IF lastLayer.type # "Fully Connected"
          THEN MsgLast
          ELSE IF lastLayer.defaultParams.units # ClassCount
          THEN MsgLast
          ELSE "null"

\* The for loop of validateNetwork from position i on; "null" when it ends
\* without returning.
RECURSIVE OrderingError(_, _, _)
OrderingError(networkLayers, i, hasSeenFC) ==
  IF i > Len(networkLayers) THEN "null"
  ELSE LET type == networkLayers[i].type
       IN IF hasSeenFC /\ (type = "Convolution 2D" \/ type = "Max Pooling")
          THEN MsgOrder
          ELSE OrderingError(networkLayers, i + 1,
                             hasSeenFC \/ type = "Fully Connected")

validateNetwork(networkLayers) ==
  IF Len(networkLayers) = 0 THEN MsgEmpty
  ELSE IF OrderingError(networkLayers, 1, FALSE) # "null"
  THEN OrderingError(networkLayers, 1, FALSE)
  ELSE LET lastLayer == networkLayers[Len(networkLayers)]
       IN IF lastLayer.type # "Fully Connected"
          THEN MsgLast
          ELSE IF lastLayer.defaultParams.units # ClassCount
          THEN MsgLast
          ELSE "null"

\* Mutation of Submit: the early return on a validation error is left out,
\* so the request is built and sent whatever validateNetwork says.
SubmitWithoutReturn ==
  /\ ~effectPending
  /\ ~isTraining
  /\ Len(layers) # 0
  /\ error' = "null"
  /\ isTraining' = TRUE
  /\ request' = "train"
  /\ last' = [op |-> "submit", kind |-> "none", index |-> 0,
              nbOk |-> FALSE, appOk |-> FALSE]
  /\ UNCHANGED <<layers, layerDimensions, totalParams, effectPending, clock,
                 trainingResults>>

\* handleSubmit up to `await trainModel(config)`.  The Start Training button
\* is disabled while training and while there is no layer.  A validation
\* error returns from inside the try, so the finally clause still runs.
Submit ==
  /\ ~effectPending
  /\ ~isTraining
  /\ Len(layers) # 0
  /\ LET networkError == validateNetwork(layers)
     IN IF networkError # "null"
        THEN /\ error' = networkError
             /\ isTraining' = FALSE
             /\ request' = "none"
        ELSE /\ error' = "null"
             /\ isTraining' = TRUE
             /\ request' = "train"
  /\ last' = [op |-> "submit", kind |-> "none", index |-> 0,
              nbOk |-> FALSE, appOk |-> FALSE]
  /\ UNCHANGED <<layers, layerDimensions, totalParams, effectPending, clock,
                 trainingResults>>

\* Results a training response can carry (data.results || []).
ResultValues == {<<>>, <<[epoch |-> 1]>>}

\* trainModel resolves: setTrainingResults(data.results), then
\* `await onTrainingComplete()` starts the reload of the history.
TrainResolve(results) ==
  /\ request = "train"
  /\ results \in ResultValues
  /\ trainingResults' = results
  /\ request' = "history"
  /\ last' = [op |-> "trainResolve", kind |-> "none", index |-> 0,
              nbOk |-> FALSE, appOk |-> FALSE]
  /\ UNCHANGED <<layers, layerDimensions, totalParams, effectPending, clock,
                 error, isTraining>>

\* Mutation of TrainReject: the finally clause is left out, isTraining stays
\* as it was.
TrainRejectWithoutFinally ==
  /\ request = "train"
  /\ error' = MsgFailed
  /\ request' = "none"
  /\ last' = [op |-> "trainReject", kind |-> "none", index |-> 0,
              nbOk |-> FALSE, appOk |-> FALSE]
  /\ UNCHANGED <<layers, layerDimensions, totalParams, effectPending, clock,
                 trainingResults, isTraining>>

\* trainModel rejects: catch sets the error, finally clears isTraining.
TrainReject ==
  /\ request = "train"
  /\ error' = MsgFailed
  /\ isTraining' = FALSE
  /\ request' = "none"
  /\ last' = [op |-> "trainReject", kind |-> "none", index |-> 0,
              nbOk |-> FALSE, appOk |-> FALSE]
  /\ UNCHANGED <<layers, layerDimensions, totalParams, effectPending, clock,
                 trainingResults>>

\* loadTrainingHistory settles (it catches its own failures): setError(null),
\* then finally clears isTraining.
HistoryDone ==
  /\ request = "history"
  /\ error' = "null"
  /\ isTraining' = FALSE
  /\ request' = "none"
  /\ last' = [op |-> "historyDone", kind |-> "none", index |-> 0,
              nbOk |-> FALSE, appOk |-> FALSE]
  /\ UNCHANGED <<layers, layerDimensions, totalParams, effectPending, clock,
                 trainingResults>>

\* The history request fails: getTrainingHistory catches the failure, logs
\* it and returns [], so loadTrainingHistory resolves and handleSubmit goes
\* on to setError(null) and to its finally clause.
HistoryFailed ==
  /\ request = "history"
  /\ error' = "null"
  /\ isTraining' = FALSE
  /\ request' = "none"
  /\ last' = [op |-> "historyFailed", kind |-> "none", index |-> 0,
              nbOk |-> FALSE, appOk |-> FALSE]
  /\ UNCHANGED <<layers, layerDimensions, totalParams, effectPending, clock,
                 trainingResults>>

(***************************************************************************)
(* Submission over every architecture the layer list can hold: the list    *)
(* starts as any sequence of catalog layers (what loading a saved          *)
(* architecture can leave in it), with the output width at its default or  *)
(* edited.                                                                 *)
(***************************************************************************)
MaxArchLen == 3

CatalogLayers ==
  {NewLayer(layerType, 0) : layerType \in LayerTypeIds}
    \cup {[NewLayer("dense", 0) EXCEPT !.defaultParams.units = 5]}

RECURSIVE SeqsUpTo(_, _)
SeqsUpTo(S, n) ==
  IF n = 0 THEN {<<>>}
  ELSE LET shorter == SeqsUpTo(S, n - 1)
       IN shorter \cup {Append(q, x) : q \in {r \in shorter : Len(r) = n - 1},
                                        x \in S}

InitSubmit ==
  /\ layers \in SeqsUpTo(CatalogLayers, MaxArchLen)
  /\ layerDimensions = calculateLayerDimensions(layers)
  /\ totalParams = SumParams(layerDimensions)
  /\ effectPending = FALSE
  /\ clock = 0
  /\ last = NoCommand
  /\ error = "null"
  /\ isTraining = FALSE
  /\ trainingResults = <<>>
  /\ request = "none"

NextSubmit ==
  \/ Submit
  \/ \E results \in ResultValues : TrainResolve(results)
  \/ TrainReject
  \/ HistoryDone
  \/ HistoryFailed
  \/ DataSourceChange
  \/ RunEffect

SpecSubmit == InitSubmit /\ [][NextSubmit]_vars

(***************************************************************************)
(* The submission flow when the awaited calls complete: a pending training *)
(* request is answered or fails, and a pending history request settles.    *)
(***************************************************************************)
TrainingSettles ==
  \/ \E results \in ResultValues : TrainResolve(results)
  \/ TrainReject

HistorySettles ==
  \/ HistoryDone
  \/ HistoryFailed

SpecSubmitFair ==
  /\ InitSubmit
  /\ [][NextSubmit]_vars
  /\ WF_vars(TrainingSettles)
  /\ WF_vars(HistorySettles)

(***************************************************************************)
(* Saving and loading an architecture: the network_architecture of the     *)
(* training request (TrainingConfig.handleSubmit) and                      *)
(* App.handleSetDefaultArchitecture, which loads such a list back.         *)
(***************************************************************************)
\* Mutation of network_architecture: every entry carries the catalog
\* parameters of its type instead of those of the layer.
network_architectureOfCatalog(networkLayers) ==
  [i \in 1..Len(networkLayers) |->
     [type |-> networkLayers[i].type,
      params |-> layerTypes[networkLayers[i].id[1]].defaultParams]]

\* networkLayers.map(layer => ({type: layer.type, params: layer.defaultParams}))
network_architecture(networkLayers) ==
  [i \in 1..Len(networkLayers) |->
     [type |-> networkLayers[i].type,
      params |-> networkLayers[i].defaultParams]]

\* The switch of getLayerTypeId.  Its default branch lower-cases the name and
\* removes the first blank, which gives no key of the catalog for any name
\* the model uses.
getLayerTypeId(layerType) ==
  CASE layerType = "Convolution 2D" -> "conv2d"
    [] layerType = "Convolution 1x1" -> "conv1x1"
    [] layerType = "Batch Normalization" -> "batchnorm"
    [] layerType = "Max Pooling" -> "maxpool"
    [] layerType = "Global Average Pooling" -> "globalavgpool"
    [] layerType = "Flatten" -> "flatten"
    [] layerType = "Dropout" -> "dropout"
    [] layerType = "Fully Connected" -> "dense"
    [] OTHER -> "unknown"

\* architecture.map(...).filter(layer => layer !== null) from entry i on.
\* The id `${layerTypeId}-${Date.now()}-${Math.random()}` is kept as
\* <<layerTypeId, t, -i>>: one draw per entry, each different from the
\* others and from every list index.
RECURSIVE uiArchitectureFrom(_, _, _)
uiArchitectureFrom(architecture, i, t) ==
  IF i > Len(architecture) THEN <<>>
  ELSE LET layer == architecture[i]
           layerTypeId == getLayerTypeId(layer.type)
           rest == uiArchitectureFrom(architecture, i + 1, t)
       IN IF layerTypeId \notin DOMAIN layerTypes THEN rest
          ELSE <<[id |-> <<layerTypeId, t, -i>>,
                  type |-> layer.type,
                  defaultParams |-> layer.params]>> \o rest

\* The value handleSetDefaultArchitecture passes to setLayers.
uiArchitecture(architecture, t) ==
  uiArchitectureFrom(architecture, 1, t)

(***************************************************************************)
(* Drag reordering (handleDragEnd of the NetworkBuilder that wraps the     *)
(* list in a DragDropContext), committed through the array branch of       *)
(* App.handleLayerUpdate.                                                  *)
(***************************************************************************)
\* Mutation of MoveItem: the two positions are exchanged.
MoveItemBySwap(ls, source, destination) ==
  [i \in 1..Len(ls) |->
     IF i = source + 1 THEN ls[destination + 1]
     ELSE IF i = destination + 1 THEN ls[source + 1]
     ELSE ls[i]]

\* reorderedLayers after splice(source, 1) and splice(destination, 0, item).
MoveItem(ls, source, destination) ==
  SpliceIn(SpliceOut(ls, source), destination, ls[source + 1])

\* reorderedLayers.map((layer, index) => ({...layer, id: ...})): every layer
\* gets the id `${layer.id.split('-')[0]}-${Date.now()}-${index}`.
RestampIds(reorderedLayers, t) ==
  [i \in 1..Len(reorderedLayers) |->
     [reorderedLayers[i] EXCEPT !.id = <<reorderedLayers[i].id[1], t, i - 1>>]]

\* handleDragEnd with a destination.
Reorder(source, destination) ==
  /\ ~effectPending
  /\ source \in 0..(Len(layers) - 1)
  /\ destination \in 0..(Len(layers) - 1)
  /\ layers' = RestampIds(MoveItem(layers, source, destination), clock)
  /\ effectPending' = TRUE
  /\ last' = [op |-> "reorder", kind |-> "none", index |-> destination,
              nbOk |-> FALSE, appOk |-> FALSE, source |-> source]
  /\ UNCHANGED <<layerDimensions, totalParams, clock, trainVars>>

\* handleDragEnd of a drag released outside the list: `if
\* (!result.destination) return`.
DragCancelled(source) ==
  /\ ~effectPending
  /\ source \in 0..(Len(layers) - 1)
  /\ last' = [op |-> "dragCancelled", kind |-> "none", index |-> 0,
              nbOk |-> FALSE, appOk |-> FALSE, source |-> source]
  /\ UNCHANGED <<layers, layerDimensions, totalParams, effectPending, clock,
                 trainVars>>

\* The list starts as a saved architecture loaded from the training history:
\* one that passed validateNetwork when it was trained.
InitReorder ==
  /\ \E a \in SeqsUpTo(CatalogLayers, MaxArchLen) :
       /\ validateNetwork(a) = "null"
       /\ layers = uiArchitecture(network_architecture(a), 0)
  /\ layerDimensions = calculateLayerDimensions(layers)
  /\ totalParams = SumParams(layerDimensions)
  /\ effectPending = FALSE
  /\ clock = 0
  /\ last = NoCommand
  /\ error = "null"
  /\ isTraining = FALSE
  /\ trainingResults = <<>>
  /\ request = "none"

NextReorder ==
  \/ \E source \in 0..(MaxArchLen - 1), destination \in 0..(MaxArchLen - 1) :
       Reorder(source, destination)
  \/ \E source \in 0..(MaxArchLen - 1) : DragCancelled(source)
  \/ RunEffect

SpecReorder == InitReorder /\ [][NextReorder]_vars

(***************************************************************************)
(* Shape inference over loaded architectures.  The list starts as a saved  *)
(* architecture handed to handleSetDefaultArchitecture, its entries        *)
(* carrying catalog parameters or values typed into the LayerCard fields;  *)
(* NetworkBuilder has rendered it and its effect has not run yet.          *)
(***************************************************************************)
MaxInferLen == 3

\* {type, params} of the catalog layer layerType.
Entry(layerType) ==
  [type |-> layerTypes[layerType].type,
   params |-> layerTypes[layerType].defaultParams]

\* A Convolution 2D entry with the four number fields of its card set.
Conv2DEntry(filters, kernelSize, stride, padding) ==
  [Entry("conv2d") EXCEPT !.params.filters = filters,
                          !.params.kernelSize = kernelSize,
                          !.params.stride = stride,
                          !.params.padding = padding]

\* A Max Pooling entry with the two number fields of its card set.
MaxPoolEntry(poolSize, stride) ==
  [Entry("maxpool") EXCEPT !.params.poolSize = poolSize,
                           !.params.stride = stride]

PoolSizes == {2, 3}

SavedEntries ==
  {Entry(layerType) : layerType \in LayerTypeIds}
    \cup {Conv2DEntry(1, 4, 2, 0), Conv2DEntry(8, 5, 3, 2)}
    \cup {MaxPoolEntry(poolSize, stride) : poolSize \in PoolSizes,
                                           stride \in {1, 2, 3}}
    \cup {[Entry("dense") EXCEPT !.params.units = 5]}

InitInfer ==
  /\ \E architecture \in SeqsUpTo(SavedEntries, MaxInferLen) :
       layers = uiArchitecture(architecture, 0)
  /\ layerDimensions = <<>>
  /\ totalParams = 0
  /\ effectPending = TRUE
  /\ clock = 0
  /\ last = NoCommand
  /\ error = "null"
  /\ isTraining = FALSE
  /\ trainingResults = <<>>
  /\ request = "none"

\* The architecture on screen is sent as network_architecture and the saved
\* list is loaded back with handleSetDefaultArchitecture.
SetDefaultArchitecture ==
  /\ ~effectPending
  /\ layers' = uiArchitecture(network_architecture(layers), clock)
  /\ effectPending' = TRUE
  /\ last' = [op |-> "setDefault", kind |-> "none", index |-> 0,
              nbOk |-> FALSE, appOk |-> FALSE]
  /\ UNCHANGED <<layerDimensions, totalParams, clock, trainVars>>

NextInfer ==
  \/ RunEffect
  \/ SetDefaultArchitecture

SpecInfer == InitInfer /\ [][NextInfer]_vars

(***************************************************************************)
(* Vocabulary of the properties.                                           *)
(***************************************************************************)
ReducingTypes == {"Flatten", "Global Average Pooling"}

ConvPoolTypes == {"Convolution 2D", "Convolution 1x1", "Max Pooling"}

ReducingIds == {"flatten", "globalavgpool"}

ConvPoolIds == {"conv2d", "conv1x1", "maxpool"}

InsertOps == {"append", "insertAt"}

CountOf(ls, types) == Cardinality({i \in 1..Len(ls) : ls[i].type \in types})

\* Some Fully Connected layer stands before the 0-based position index.
DenseBefore(ls, index) ==
  \E i \in 1..Len(ls) : i <= index /\ ls[i].type = "Fully Connected"

\* The step is a command of one of the given kinds issued between renders
\* (not a tick of the clock, not the effect); last' describes it.
StepOf(ops) == ~effectPending /\ clock' = clock /\ last'.op \in ops

CommandStep == StepOf(InsertOps)

RECURSIVE ParamCountSum(_)
ParamCountSum(dimensions) ==
  IF dimensions = <<>> THEN 0
  ELSE Head(dimensions).params + ParamCountSum(Tail(dimensions))

(***************************************************************************)
(* C1.  Threading: the output shape of every layer is the input shape of   *)
(* the next one, with the same rank and the same components.               *)
(***************************************************************************)
C1_Threading ==
  \A i \in 1..(Len(layerDimensions) - 1) :
    layerDimensions[i].output = layerDimensions[i + 1].input

C3_AtMostOneReducing ==
  /\ [](CountOf(layers, ReducingTypes) <= 1)
  /\ [][(CommandStep /\ last'.kind \in ReducingIds
           /\ CountOf(layers, ReducingTypes) >= 1)
          => layers' = layers]_vars

C3_Witness ==
  /\ last.op = "insertAt"
  /\ last.kind \in ReducingIds
  /\ ~last.nbOk /\ ~last.appOk
  /\ CountOf(layers, ReducingTypes) = 1
  /\ CountOf(layers, ConvPoolTypes) >= 1
  /\ CountOf(layers, {"Fully Connected"}) = 0

C5_ReducingNeedsConv ==
  [][(CommandStep /\ last'.kind \in ReducingIds /\ layers' # layers)
       => /\ CountOf(layers, ConvPoolTypes) >= 1
          /\ CountOf(layers, {"Fully Connected"}) = 0]_vars

C7_RejectedInsertAtomic ==
  [][(CommandStep
        /\ \/ last'.op = "append" /\ ~last'.appOk
           \/ last'.op = "insertAt" /\ ~last'.nbOk)
       => UNCHANGED <<layers, layerDimensions, totalParams>>]_vars

(***************************************************************************)
(* C8.  An accepted insertAt(index, kind) puts the new layer at position   *)
(* index, keeps every other layer (id, kind, params) in its relative order *)
(* and grows the sequence by one.                                          *)
(***************************************************************************)
C8_InsertedAtIndex ==
  [][(CommandStep /\ last'.op = "insertAt" /\ last'.nbOk)
       => /\ Len(layers') = Len(layers) + 1
          /\ layers'[last'.index + 1].id[1] = last'.kind
          /\ \A i \in 1..Len(layers) :
               layers[i] = layers'[IF i <= last'.index THEN i ELSE i + 1]]_vars

(***************************************************************************)
(* C9.  In every state that is rendered, the cached dimensions list has    *)
(* the length of the layer sequence and is the one inferred from it.       *)
(***************************************************************************)
C9_DimensionsInSync ==
  /\ Len(layerDimensions) = Len(layers)
  /\ layerDimensions = calculateLayerDimensions(layers)

(***************************************************************************)
(* C10.  validateNetwork returns no error exactly for the architectures    *)
(* that are non-empty, hold no Conv2D or MaxPool behind a Fully Connected  *)
(* layer and end in a Fully Connected layer of 10 units; right after a     *)
(* submission the stored error and isTraining follow that verdict.         *)
(***************************************************************************)
Trainable(ls) ==
  /\ Len(ls) >= 1
  /\ ~\E i, j \in 1..Len(ls) :
        /\ i < j
        /\ ls[i].type = "Fully Connected"
        /\ ls[j].type \in {"Convolution 2D", "Max Pooling"}
  /\ ls[Len(ls)].type = "Fully Connected"
  /\ ls[Len(ls)].defaultParams.units = 10

C11_ValidationBlocksHandoff ==
  [][(last'.op = "submit" /\ validateNetwork(layers) # "null")
       => /\ request' = "none"
          /\ ~isTraining'
          /\ error' = validateNetwork(layers)
          /\ trainingResults' = trainingResults]_vars

C11_Witness ==
  /\ last.op = "submit"
  /\ error = MsgOrder
  /\ ~isTraining
  /\ request = "none"
  /\ layers[Len(layers)].type = "Max Pooling"

(***************************************************************************)
(* C12.  Identifier stability: a command that does not remove a layer      *)
(* leaves every layer of the sequence in the next state with the id it     *)
(* had; reorder only changes positions.                                    *)
(***************************************************************************)
LayerIds(ls) == {ls[i].id : i \in 1..Len(ls)}

C12_IdStability ==
  [][StepOf({"append", "insertAt", "updateParams", "reorder",
              "dragCancelled"})
       => LayerIds(layers) \subseteq LayerIds(layers')]_vars

(***************************************************************************)
(* C13.  A reorder keeps the length, puts the moved layer at the           *)
(* destination index with its kind and params, and keeps the other layers  *)
(* in their relative order with their kinds and params; a drag without a   *)
(* destination leaves the sequence as it was.                              *)
(***************************************************************************)
KindParams(layer) == [type |-> layer.type, params |-> layer.defaultParams]

\* Kind and params of the layers of ls other than the one at position k.
KindParamsWithout(ls, k) ==
  [i \in 1..(Len(ls) - 1) |-> KindParams(ls[IF i < k THEN i ELSE i + 1])]

C13_ReorderPermutes ==
  /\ [][StepOf({"reorder"})
         => /\ Len(layers') = Len(layers)
            /\ KindParams(layers'[last'.index + 1])
                 = KindParams(layers[last'.source + 1])
            /\ KindParamsWithout(layers', last'.index + 1)
                 = KindParamsWithout(layers, last'.source + 1)]_vars
  /\ [][StepOf({"dragCancelled"})
         => layers' = layers]_vars

C13_Witness ==
  /\ last.op = "reorder"
  /\ last.source = 0
  /\ last.index = 2
  /\ Len(layers) = 3
  /\ layers[1].type = "Dropout"
  /\ layers[2].type = "Fully Connected"
  /\ layers[3].type = "Convolution 2D"

(***************************************************************************)
(* C14.  updateParams replaces the params of the targeted layer only: the  *)
(* length, the order, the id and kind of every layer and the params of the *)
(* other layers stay, and the edited value is written whatever the order   *)
(* of the sequence is.                                                     *)
(***************************************************************************)
C14_UpdateParamsFrame ==
  [][StepOf({"updateParams"})
       => /\ Len(layers') = Len(layers)
          /\ \A i \in 1..Len(layers) :
               /\ layers'[i].id = layers[i].id
               /\ layers'[i].type = layers[i].type
               /\ i # last'.index + 1
                    => layers'[i].defaultParams = layers[i].defaultParams
          /\ LET before == layers[last'.index + 1].defaultParams
                 after == layers'[last'.index + 1].defaultParams
             IN /\ DOMAIN after = DOMAIN before
                /\ after[last'.kind] \in EditValues[last'.kind]
                /\ \A q \in DOMAIN before \ {last'.kind} : after[q] = before[q]]_vars

C14_Witness ==
  /\ last.op = "updateParams"
  /\ last.index = 1
  /\ Len(layers) = 3
  /\ layers[1].type = "Fully Connected"
  /\ layers[1].defaultParams.units = 10
  /\ layers[2].type = "Fully Connected"
  /\ layers[2].defaultParams.units = 5
  /\ layers[2].defaultParams.activation = "softmax"

(***************************************************************************)
(* C15.  remove deletes the targeted layer only: the sequence is one       *)
(* shorter, every other layer keeps its relative order, id, kind and       *)
(* params, and the dimensions and the total held after the command are     *)
(* those inferred from the remaining sequence.                             *)
(***************************************************************************)
C15_RemoveFrame ==
  [][StepOf({"remove"})
       => /\ Len(layers') = Len(layers) - 1
          /\ \A i \in 1..Len(layers') :
               layers'[i] = layers[IF i <= last'.index THEN i ELSE i + 1]
          /\ layerDimensions' = calculateLayerDimensions(layers')
          /\ totalParams' = ParamCountSum(calculateLayerDimensions(layers'))]_vars

C15_Witness ==
  /\ last.op = "remove"
  /\ last.index = 1
  /\ Len(layers) = 2
  /\ layers[1].type = "Convolution 2D"
  /\ layers[2].type = "Fully Connected"
  /\ totalParams = 320 + (32 * 28 * 28 * 10 + 10)

(***************************************************************************)
(* C16.  No shape held for a layer has a component that is not a positive  *)
(* integer: where a Conv2D or MaxPool computes a spatial dimension <= 0,   *)
(* the shape is not stored and not passed on to the following layers.      *)
(***************************************************************************)
PositiveShape(shape) == \A k \in 1..Len(shape) : shape[k] >= 1

C16_NoInvalidShapeStored ==
  \A i \in 1..Len(layerDimensions) :
    /\ PositiveShape(layerDimensions[i].input)
    /\ PositiveShape(layerDimensions[i].output)

(***************************************************************************)
(* C17.  A Conv2D layer with filters >= 1, kernelSize >= 1, stride >= 1    *)
(* and padding >= 0 and incoming shape [C, H, W] has the output shape      *)
(* [filters, floor((H + 2*padding - kernelSize)/stride) + 1,               *)
(* floor((W + 2*padding - kernelSize)/stride) + 1] and                     *)
(* kernelSize*kernelSize*C*filters + filters parameters, C being the first *)
(* component of the output of the layer before it (1 for the first         *)
(* layer); the catalog Conv2D on [1,28,28] gives [32,28,28] and 320.       *)
(***************************************************************************)
ConvOutSize(size, p) == ((size + 2 * p.padding - p.kernelSize) \div p.stride) + 1

C17_Conv2DFormula ==
  ~effectPending =>
    \A i \in 1..Len(layers) :
      LET p == layers[i].defaultParams
          d == layerDimensions[i]
          C == IF i = 1 THEN 1 ELSE layerDimensions[i - 1].output[1]
      IN (/\ layers[i].type = "Convolution 2D"
          /\ p.filters >= 1 /\ p.kernelSize >= 1
          /\ p.stride >= 1 /\ p.padding >= 0)
         => /\ d.input[1] = C
            /\ d.output = <<p.filters, ConvOutSize(d.input[2], p),
                            ConvOutSize(d.input[3], p)>>
            /\ d.params = p.kernelSize * p.kernelSize * C * p.filters + p.filters
            /\ (i = 1 /\ p = layerTypes.conv2d.defaultParams)
                 => d.output = <<32, 28, 28>> /\ d.params = 320

C17_Witness ==
  /\ ~effectPending
  /\ Len(layers) = 3
  /\ layers[3].type = "Convolution 2D"
  /\ layers[3].defaultParams.kernelSize = 4
  /\ layerDimensions[3].input = <<32, 9, 9>>
  /\ layerDimensions[3].output = <<1, 3, 3>>
  /\ layerDimensions[3].params = 4 * 4 * 32 * 1 + 1
  /\ layerDimensions[1].params = 320

(***************************************************************************)
(* C18.  A MaxPool layer with stride s >= 1 and incoming shape [C, H, W]   *)
(* has the output shape [C, floor(H/s), floor(W/s)] and no parameters, and *)
(* the dimensions of the whole sequence are the same for every poolSize of *)
(* that layer; [32,28,28] with poolSize 2 and stride 2 gives [32,14,14].   *)
(***************************************************************************)
C18_MaxPoolFormula ==
  ~effectPending =>
    \A i \in 1..Len(layers) :
      LET p == layers[i].defaultParams
          d == layerDimensions[i]
      IN (layers[i].type = "Max Pooling" /\ p.stride >= 1)
         => /\ d.output = <<d.input[1], d.input[2] \div p.stride,
                            d.input[3] \div p.stride>>
            /\ d.params = 0
            /\ \A poolSize \in PoolSizes :
                 calculateLayerDimensions(
                   [layers EXCEPT ![i].defaultParams.poolSize = poolSize])
                   = layerDimensions
            /\ (d.input = <<32, 28, 28>> /\ p.poolSize = 2 /\ p.stride = 2)
                 => d.output = <<32, 14, 14>>

C18_Witness ==
  /\ ~effectPending
  /\ Len(layers) = 3
  /\ layers[2].type = "Max Pooling"
  /\ layers[2].defaultParams = [poolSize |-> 2, stride |-> 2]
  /\ layerDimensions[2].input = <<32, 28, 28>>
  /\ layerDimensions[2].output = <<32, 14, 14>>
  /\ layers[3].type = "Max Pooling"
  /\ layers[3].defaultParams = [poolSize |-> 2, stride |-> 3]
  /\ layerDimensions[3].output = <<32, 4, 4>>

(***************************************************************************)
(* C19.  A Dense layer has the output shape [units] and                    *)
(* inputSize*units + units parameters, inputSize being the product of the  *)
(* components of the incoming shape; so its parameter count, and the total *)
(* of the architecture, are the same with and without a Flatten layer      *)
(* right before it.                                                        *)
(***************************************************************************)
RECURSIVE Product(_)
Product(shape) ==
  IF shape = <<>> THEN 1 ELSE Head(shape) * Product(Tail(shape))

\* The shape that reaches layer i: the output of the layer before it.
IncomingShape(dimensions, i) ==
  IF i = 1 THEN <<InputChannels, InputHeight, InputWidth>>
  ELSE dimensions[i - 1].output

C19_DenseFormula ==
  ~effectPending =>
    \A i \in 1..Len(layers) :
      layers[i].type = "Fully Connected"
        => LET units == layers[i].defaultParams.units
               d == layerDimensions[i]
               inputSize == Product(IncomingShape(layerDimensions, i))
           IN /\ d.output = <<units>>
              /\ d.params = inputSize * units + units
              /\ (i > 1 /\ layers[i - 1].type = "Flatten")
                   => LET bare == calculateLayerDimensions(
                                    SubSeq(layers, 1, i - 2)
                                      \o SubSeq(layers, i, Len(layers)))
                      IN /\ bare[i - 1].params = d.params
                         /\ ParamCountSum(bare) = totalParams

(***************************************************************************)
(* C20.  Round trip: the sequence loaded back from the {type, params}      *)
(* list of the current sequence has the same length and, at every          *)
(* position, the same kind and the same params (ids may differ), and shape *)
(* inference gives the same per-layer dimensions for both.                 *)
(***************************************************************************)
C20_RoundTrip ==
  [][StepOf({"setDefault"})
       => /\ Len(layers') = Len(layers)
          /\ \A i \in 1..Len(layers) :
               KindParams(layers'[i]) = KindParams(layers[i])
          /\ calculateLayerDimensions(layers') = calculateLayerDimensions(layers)]_vars

C20_Witness ==
  /\ last.op = "setDefault"
  /\ effectPending
  /\ Len(layers) = 3
  /\ layers[1].type = "Convolution 2D"
  /\ layers[1].defaultParams.kernelSize = 4
  /\ layers[2].type = "Convolution 1x1"
  /\ layers[3].type = "Fully Connected"
  /\ layers[3].defaultParams.units = 5
  /\ Len(layerDimensions) = 3

(***************************************************************************)
(* C21.  A failure of the training request or of the history request is    *)
(* surfaced as an error outcome: after the failure the stored error is     *)
(* set, the failure does not end in a log entry and an empty result only.  *)
(***************************************************************************)
C21_FailuresSurfaced ==
  last.op \in {"trainReject", "historyFailed"} => error # "null"

(***************************************************************************)
(* C22.  An append or insertAt of a BatchNorm, Dropout or Dense layer is   *)
(* accepted for every current sequence and every target index: the append  *)
(* rules accept it, and for an insertAt validateLayerOrder accepts the     *)
(* sequence with the layer at that index.                                  *)
(***************************************************************************)
UnconstrainedIds == {"batchnorm", "dropout", "dense"}

C22_UnconstrainedAccepted ==
  [][(CommandStep /\ last'.kind \in UnconstrainedIds)
       => /\ last'.op = "append" => last'.appOk /\ Len(layers') = Len(layers) + 1
          /\ last'.op = "insertAt" => last'.nbOk]_vars

(***************************************************************************)
(* C23.  Every rejection is reported: when the append rules refuse an      *)
(* append, when validateLayerOrder refuses an insertAt and when            *)
(* validateNetwork refuses a submission, a non-empty reason is left for    *)
(* the caller.                                                             *)
(***************************************************************************)
C23_RejectionHasReason ==
  [][(\/ StepOf({"append"}) /\ ~last'.appOk
      \/ StepOf({"insertAt"}) /\ ~last'.nbOk
      \/ StepOf({"submit"}) /\ validateNetwork(layers) # "null")
       => error' \notin {"null", ""}]_vars

(***************************************************************************)
(* C24.  In every state built from the empty architecture by append,       *)
(* insertAt, updateParams and remove, no Conv2D or MaxPool stands behind a *)
(* Fully Connected layer, so the ordering check of validateNetwork finds   *)
(* nothing to refuse.                                                      *)
(***************************************************************************)
C24_NoConvBehindDense ==
  /\ ~\E i, j \in 1..Len(layers) :
        /\ i < j
        /\ layers[i].type = "Fully Connected"
        /\ layers[j].type \in {"Convolution 2D", "Max Pooling"}
  /\ OrderingError(layers, 1, FALSE) = "null"

C24_Witness ==
  /\ last.op = "insertAt"
  /\ last.kind = "maxpool"
  /\ last.nbOk /\ ~last.appOk
  /\ Len(layers) = 3
  /\ layers[1].type = "Convolution 2D"
  /\ layers[2].type = "Max Pooling"
  /\ layers[3].type = "Fully Connected"

(***************************************************************************)
(* C25.  The two insertion-time validators agree: every sequence the       *)
(* append path produces is accepted by validateLayerOrder.                 *)
(***************************************************************************)
C25_ValidatorsAgree ==
  validateLayerOrder(layers)

(***************************************************************************)
(* C26.  In every state built from the empty architecture by append,       *)
(* insertAt, updateParams and remove, every Flatten / Global Average       *)
(* Pooling layer has a Conv2D, Conv1x1 or MaxPool layer somewhere before   *)
(* it.                                                                     *)
(***************************************************************************)
C26_ReducingAfterConv ==
  \A j \in 1..Len(layers) :
    layers[j].type \in ReducingTypes
      => \E i \in 1..(j - 1) : layers[i].type \in ConvPoolTypes

(***************************************************************************)
(* C27.  A command that replaces the whole sequence keeps the ordering     *)
(* invariants of append and insertAt: when the sequence holds at most one  *)
(* Flatten / Global Average Pooling and no Conv2D or MaxPool behind a      *)
(* Fully Connected layer, it still does after a reorder or a load.         *)
(***************************************************************************)
OrderingKept(ls) ==
  /\ CountOf(ls, ReducingTypes) <= 1
  /\ ~\E i, j \in 1..Len(ls) :
        /\ i < j
        /\ ls[i].type = "Fully Connected"
        /\ ls[j].type \in {"Convolution 2D", "Max Pooling"}

C27_ReplacementKeepsOrdering ==
  [][(StepOf({"reorder", "setDefault"}) /\ OrderingKept(layers))
       => OrderingKept(layers')]_vars

(***************************************************************************)
(* C28.  A submission that passes validation sets isTraining to true, and  *)
(* whenever isTraining is true it is eventually false again, whether the   *)
(* training request succeeds or fails, provided the request and the        *)
(* history reload complete.                                                *)
(***************************************************************************)
C28_TrainingFlagCleared ==
  /\ [][(last'.op = "submit" /\ ~isTraining /\ validateNetwork(layers) = "null")
         => isTraining']_vars
  /\ (isTraining ~> ~isTraining)

C28_Witness ==
  /\ last.op = "historyDone"
  /\ ~isTraining
  /\ request = "none"
  /\ trainingResults # <<>>
  /\ validateNetwork(layers) = "null"

C30_IdsDistinct ==
  \A i, j \in 1..Len(layers) : i # j => layers[i].id # layers[j].id

====
